---- MODULE Spec2Model ----
(***************************************************************************)
(* Contact directory of src/main.py: validated fields (Name, Phone,        *)
(* Birthday), Record, AddressBook and the command handlers that call them. *)
(*                                                                         *)
(* Python strings are sequences of Unicode code points.  A call either     *)
(* returns a value or raises: every operation yields a record              *)
(* [exc, msg, val] with exc = "none" for a normal return.                  *)
(***************************************************************************)
EXTENDS Integers, Sequences, FiniteSets, TLC

VARIABLES data, last

vars == <<data, last>>

(* ------------------------------ bounds -------------------------------- *)

\* most entries the directory holds in a run
MaxContacts == 2
\* most phones a record holds in the directory runs
MaxBookPhones == 1
\* most phones the record holds in the record runs
MaxPhones == 3
\* how far beyond the required length the raw phone strings of the phone runs go
MaxExtra == 1

(* ------------------------- program constants -------------------------- *)

\* len(value) != 10
PhoneLen == 10
\* get_upcoming_birthdays(self, days=7)
DefaultDays == 7

(* --------------------------- outcomes --------------------------------- *)

Ok(v) == [exc |-> "none", msg |-> "", val |-> v]

Raise(e, m) == [exc |-> e, msg |-> m, val |-> <<>>]

(* ---------------------------- strings --------------------------------- *)

\* str.isdigit() of one character: Numeric_Type Decimal or Digit.  ASCII
\* 0-9, SUPERSCRIPT TWO/THREE/ONE (U+00B2, U+00B3, U+00B9) and the
\* ARABIC-INDIC digits (U+0660..U+0669) are the ones the inputs here use.
IsDigitChar(c) == c \in 48..57 \/ c \in {178, 179, 185} \/ c \in 1632..1641

\* the regular expression class \d of a str pattern: Unicode category Nd
IsDecimalChar(c) == c \in 48..57 \/ c \in 1632..1641

\* int() of one decimal character
DecimalValue(c) == IF c \in 48..57 THEN c - 48 ELSE c - 1632

isdigit(s) == Len(s) > 0 /\ \A i \in 1..Len(s) : IsDigitChar(s[i])

IsSpaceChar(c) == c \in {32, 9, 10, 11, 12, 13}

\* str.strip(): the string without its leading and trailing whitespace
strip(s) ==
    LET keep == {i \in 1..Len(s) : ~IsSpaceChar(s[i])}
    IN  IF keep = {} THEN <<>>
        ELSE LET lo == CHOOSE i \in keep : \A j \in keep : i <= j
                 hi == CHOOSE i \in keep : \A j \in keep : j <= i
             IN  SubSeq(s, lo, hi)

RECURSIVE ToInt(_)
\* int() of a string of decimal characters (a space counts as nothing)
ToInt(s) ==
    IF s = <<>> THEN 0
    ELSE LET c == s[Len(s)]
             hd == ToInt(SubSeq(s, 1, Len(s) - 1))
         IN  IF c = 32 THEN hd ELSE hd * 10 + DecimalValue(c)

\* two- and four-digit zero padded decimal, as strftime writes %d, %m and %Y
Pad2(n) == <<48 + ((n \div 10) % 10), 48 + (n % 10)>>

Pad4(n) == <<48 + ((n \div 1000) % 10), 48 + ((n \div 100) % 10)>> \o Pad2(n)

(* ----------------------------- dates ---------------------------------- *)

IsLeap(y) == y % 4 = 0 /\ (y % 100 # 0 \/ y % 400 = 0)

DaysInMonth(y, m) ==
    IF m = 2 THEN (IF IsLeap(y) THEN 29 ELSE 28)
    ELSE IF m \in {4, 6, 9, 11} THEN 30 ELSE 31

DaysBeforeYear(y) ==
    (y - 1) * 365 + (y - 1) \div 4 - (y - 1) \div 100 + (y - 1) \div 400

RECURSIVE DaysBeforeMonth(_, _)
DaysBeforeMonth(y, m) ==
    IF m = 1 THEN 0 ELSE DaysBeforeMonth(y, m - 1) + DaysInMonth(y, m - 1)

MkDate(y, m, d) == [y |-> y, m |-> m, d |-> d]

\* date(y, m, d) of datetime: the arguments a date can be built from
ValidDate(y, m, d) ==
    y \in 1..9999 /\ m \in 1..12 /\ d >= 1 /\ d <= DaysInMonth(y, m)

\* date.toordinal(): 1 for 01.01.0001
ToOrdinal(dt) == DaysBeforeYear(dt.y) + DaysBeforeMonth(dt.y, dt.m) + dt.d

\* date.fromordinal(), the way datetime computes it from 400-, 100-, 4- and
\* 1-year cycles
FromOrdinal(ord) ==
    LET n0   == ord - 1
        n400 == n0 \div 146097
        r400 == n0 % 146097
        n100 == r400 \div 36524
        r100 == r400 % 36524
        n4   == r100 \div 1461
        r4   == r100 % 1461
        n1   == r4 \div 365
        n    == r4 % 365
        year == n400 * 400 + 1 + n100 * 100 + n4 * 4 + n1
    IN  IF n1 = 4 \/ n100 = 4 THEN MkDate(year - 1, 12, 31)
        ELSE LET leap  == n1 = 3 /\ (n4 # 24 \/ n100 = 3)
                 y2    == IF leap THEN 4 ELSE 1
                 m0    == (n + 50) \div 32
                 prec0 == DaysBeforeMonth(y2, m0)
                 month == IF prec0 > n THEN m0 - 1 ELSE m0
                 prec  == DaysBeforeMonth(y2, month)
             IN  MkDate(year, month, n - prec + 1)

\* date.weekday(): 0 = Monday ... 5 = Saturday, 6 = Sunday
Weekday(dt) == (ToOrdinal(dt) + 6) % 7

\* date.__lt__: by year, then month, then day
DateLt(a, b) ==
    \/ a.y < b.y
    \/ a.y = b.y /\ a.m < b.m
    \/ a.y = b.y /\ a.m = b.m /\ a.d < b.d

\* date.replace(year=y): builds date(y, month, day), which raises ValueError
\* when that day does not exist
Replace(dt, y) ==
    IF ValidDate(y, dt.m, dt.d) THEN Ok(MkDate(y, dt.m, dt.d))
    ELSE Raise("ValueError", "day is out of range for month")

\* date + timedelta(days=k)
AddDays(dt, k) == FromOrdinal(ToOrdinal(dt) + k)

\* date.strftime("%d.%m.%Y")
strftime(dt) == Pad2(dt.d) \o <<46>> \o Pad2(dt.m) \o <<46>> \o Pad4(dt.y)

\* the directive %d of strptime: 3[0-1]|[1-2]\d|0[1-9]|[1-9]| [1-9]
MatchDay(p) ==
    \/ Len(p) = 2 /\ p[1] = 51 /\ p[2] \in {48, 49}
    \/ Len(p) = 2 /\ p[1] \in {49, 50} /\ IsDecimalChar(p[2])
    \/ Len(p) = 2 /\ p[1] = 48 /\ p[2] \in 49..57
    \/ Len(p) = 1 /\ p[1] \in 49..57
    \/ Len(p) = 2 /\ p[1] = 32 /\ p[2] \in 49..57

\* the directive %m of strptime: 1[0-2]|0[1-9]|[1-9]
MatchMonth(p) ==
    \/ Len(p) = 2 /\ p[1] = 49 /\ p[2] \in {48, 49, 50}
    \/ Len(p) = 2 /\ p[1] = 48 /\ p[2] \in 49..57
    \/ Len(p) = 1 /\ p[1] \in 49..57

\* the directive %Y of strptime: \d\d\d\d
MatchYear(p) == Len(p) = 4 /\ \A i \in 1..4 : IsDecimalChar(p[i])

\* datetime.strptime(s, "%d.%m.%Y").date(): the whole string has to match,
\* and the numbers have to be a date
strptime(s) ==
    LET splits == {ij \in (1..Len(s)) \X (1..Len(s)) :
                     /\ ij[1] < ij[2]
                     /\ s[ij[1]] = 46
                     /\ s[ij[2]] = 46
                     /\ MatchDay(SubSeq(s, 1, ij[1] - 1))
                     /\ MatchMonth(SubSeq(s, ij[1] + 1, ij[2] - 1))
                     /\ MatchYear(SubSeq(s, ij[2] + 1, Len(s)))}
    IN  IF splits = {} THEN Raise("ValueError", "time data does not match format")
        ELSE LET ij == CHOOSE x \in splits : TRUE
                 d  == ToInt(SubSeq(s, 1, ij[1] - 1))
                 m  == ToInt(SubSeq(s, ij[1] + 1, ij[2] - 1))
                 y  == ToInt(SubSeq(s, ij[2] + 1, Len(s)))
             IN  IF ValidDate(y, m, d) THEN Ok(MkDate(y, m, d))
                 ELSE Raise("ValueError", "day is out of range for month")

(* ----------------------------- fields --------------------------------- *)

\* A Field is its value: Field.__eq__ compares the values, Field.__str__
\* is str(value).

\* Name.__init__
Name(value) ==
    IF strip(value) = <<>> THEN Raise("ValueError", "Name field cannot be empty.")
    ELSE Ok(value)

\* Phone.__init__
Phone(value) ==
    IF ~isdigit(value) \/ Len(value) # PhoneLen
    THEN Raise("ValueError", "Phone number must consist of 10 digits.")
    ELSE Ok(value)

\* Python values a caller hands to Birthday: a str or a datetime.date
PyStr(s) == [type |-> "str", v |-> s]

PyDate(dt) == [type |-> "date", v |-> dt]

\* Birthday.__init__: strptime raises TypeError for anything but a str, and
\* only ValueError is translated
Birthday(value) ==
    IF value.type # "str"
    THEN Raise("TypeError", "strptime() argument 1 must be str, not datetime.date")
    ELSE LET r == strptime(value.v)
         IN  IF r.exc = "none" THEN Ok(r.val)
             ELSE Raise("ValueError", "Invalid date format. Use DD.MM.YYYY")

(* ----------------------------- Record --------------------------------- *)

\* A record is [name, phones, birthday]: the value of its Name, the values
\* of its Phones in list order, and birthday = <<>> for None or <<date>>.
\* Each method yields [exc, msg, val, rec]: the outcome and the record after.

With(out, rec) == [exc |-> out.exc, msg |-> out.msg, val |-> out.val, rec |-> rec]

\* Record.__init__
Record(name) ==
    LET n == Name(name)
    IN  IF n.exc # "none" THEN n
        ELSE Ok([name |-> n.val, phones |-> <<>>, birthday |-> <<>>])

\* Record.add_phone
add_phone(rec, phone) ==
    LET p == Phone(phone)
    IN  IF p.exc # "none" THEN With(p, rec)
        ELSE With(Ok(<<>>), [rec EXCEPT !.phones = Append(@, p.val)])

\* Record.remove_phone
remove_phone(rec, phone) ==
    LET Keep(p) == p # phone
    IN  With(Ok(<<>>), [rec EXCEPT !.phones = SelectSeq(@, Keep)])

\* list.index(x): the first position whose item equals x, 0 for ValueError
index(list, x) ==
    LET hits == {i \in 1..Len(list) : list[i] = x}
    IN  IF hits = {} THEN 0 ELSE CHOOSE i \in hits : \A j \in hits : i <= j

\* edit_phone that replaces every entry equal to old_phone
edit_phone_all(rec, old_phone, new_phone) ==
    LET notFound == Raise("ValueError", "Old phone number not found.")
        old == Phone(old_phone)
        new == Phone(new_phone)
    IN  IF old.exc # "none" \/ new.exc # "none" THEN With(notFound, rec)
        ELSE IF \A i \in 1..Len(rec.phones) : rec.phones[i] # old.val
        THEN With(notFound, rec)
        ELSE With(Ok(<<>>),
                  [rec EXCEPT !.phones = [i \in 1..Len(@) |->
                                             IF @[i] = old.val THEN new.val ELSE @[i]]])

\* Record.edit_phone: every ValueError raised in the try block, the ones of
\* Phone(old_phone), of list.index and of Phone(new_phone), is re-raised as
\* "Old phone number not found."
edit_phone(rec, old_phone, new_phone) ==
    LET notFound == Raise("ValueError", "Old phone number not found.")
        old == Phone(old_phone)
        new == Phone(new_phone)
        i   == index(rec.phones, old.val)
    IN  IF old.exc # "none" THEN With(notFound, rec)
        ELSE IF i = 0 THEN With(notFound, rec)
        ELSE IF new.exc # "none" THEN With(notFound, rec)
        ELSE With(Ok(<<>>), [rec EXCEPT !.phones[i] = new.val])

\* Record.find_phone: <<the phone>>, or <<>> for None
find_phone(rec, phone) ==
    LET i == index(rec.phones, phone)
    IN  With(Ok(IF i = 0 THEN <<>> ELSE <<rec.phones[i]>>), rec)

\* Record.add_birthday
Record_add_birthday(rec, birthday) ==
    LET b == Birthday(birthday)
    IN  IF b.exc # "none" THEN With(b, rec)
        ELSE With(Ok(<<>>), [rec EXCEPT !.birthday = <<b.val>>])

(* --------------------------- AddressBook ------------------------------ *)

\* UserDict.data: the entries [key, rec] in insertion order, no key twice.
\* Each method yields [exc, msg, val, data]: the outcome and the dict after.

WithData(out, d) == [exc |-> out.exc, msg |-> out.msg, val |-> out.val, data |-> d]

\* position of key in the dict, 0 when absent
KeyIndex(d, key) ==
    LET hits == {i \in 1..Len(d) : d[i].key = key}
    IN  IF hits = {} THEN 0 ELSE CHOOSE i \in hits : \A j \in hits : i <= j

\* key in self.data
Contains(d, key) == KeyIndex(d, key) # 0

\* self.data[key] = rec
SetItem(d, key, rec) ==
    IF Contains(d, key) THEN [d EXCEPT ![KeyIndex(d, key)].rec = rec]
    ELSE Append(d, [key |-> key, rec |-> rec])

\* del self.data[key]
DelItem(d, key) ==
    LET i == KeyIndex(d, key)
    IN  SubSeq(d, 1, i - 1) \o SubSeq(d, i + 1, Len(d))

\* str.lower() over A-Z
lower(s) == [i \in 1..Len(s) |-> IF s[i] \in 65..90 THEN s[i] + 32 ELSE s[i]]

\* add_record without the check for an entry of that name
add_record_overwrite(d, record) == WithData(Ok(<<>>), SetItem(d, record.name, record))

\* add_record keyed by the lower-cased name
add_record_lower(d, record) ==
    IF Contains(d, lower(record.name))
    THEN WithData(Raise("ValueError", "Record with this name already exists."), d)
    ELSE WithData(Ok(<<>>), SetItem(d, lower(record.name), record))

\* AddressBook.add_record
add_record(d, record) ==
    IF Contains(d, record.name)
    THEN WithData(Raise("ValueError", "Record with this name already exists."), d)
    ELSE WithData(Ok(<<>>), SetItem(d, record.name, record))

\* AddressBook.find: <<the record>>, or <<>> for None
find(d, name) ==
    IF Contains(d, name) THEN <<d[KeyIndex(d, name)].rec>> ELSE <<>>

\* delete that removes the oldest entry instead of the named one
delete_first(d, name) ==
    IF Contains(d, name) THEN WithData(Ok(<<>>), SubSeq(d, 2, Len(d)))
    ELSE WithData(Raise("KeyError", "Record not found."), d)

\* AddressBook.delete
delete(d, name) ==
    IF Contains(d, name) THEN WithData(Ok(<<>>), DelItem(d, name))
    ELSE WithData(Raise("KeyError", "Record not found."), d)

(* ---------------------- upcoming birthdays ---------------------------- *)

\* birthday_this_year: the birthday in today's year, or in the next year
\* when that day is before today; either replace can raise
birthday_this_year(birthday, today) ==
    LET this == Replace(birthday, today.y)
    IN  IF this.exc # "none" THEN this
        ELSE IF DateLt(this.val, today) THEN Replace(this.val, today.y + 1)
        ELSE this

\* 0 <= (birthday_this_year - today).days <= days
in_window(projected, today, days) ==
    LET diff == ToOrdinal(projected) - ToOrdinal(today)
    IN  0 <= diff /\ diff <= days

\* congratulation_date with days_ahead = 6 - weekday
congratulation_date_short(projected) ==
    IF Weekday(projected) >= 5
    THEN strftime(AddDays(projected, 6 - Weekday(projected)))
    ELSE strftime(projected)

\* congratulation_date: a weekend day moves to the Monday after it
congratulation_date(projected) ==
    IF Weekday(projected) >= 5
    THEN strftime(AddDays(projected, 7 - Weekday(projected)))
    ELSE strftime(projected)

RECURSIVE upcoming_from(_, _, _, _, _)
\* the loop of get_upcoming_birthdays from entry i on, acc the list so far
upcoming_from(d, i, today, days, acc) ==
    IF i > Len(d) THEN Ok(acc)
    ELSE LET record == d[i].rec
         IN  IF record.birthday = <<>>
             THEN upcoming_from(d, i + 1, today, days, acc)
             ELSE LET p == birthday_this_year(record.birthday[1], today)
                  IN  IF p.exc # "none" THEN p
                      ELSE IF in_window(p.val, today, days)
                      THEN upcoming_from(d, i + 1, today, days,
                               Append(acc, [name |-> record.name,
                                            cdate |-> congratulation_date(p.val)]))
                      ELSE upcoming_from(d, i + 1, today, days, acc)

\* AddressBook.get_upcoming_birthdays with date.today() = today
get_upcoming_birthdays(d, today, days) == upcoming_from(d, 1, today, days, <<>>)

(* ------------------------- command handlers --------------------------- *)

\* the record stored under name changed in place
Mutate(d, name, rec) == [d EXCEPT ![KeyIndex(d, name)].rec = rec]

\* args are the tokens after the command; args[0] of the source is args[1]

\* add_contact under input_error_add
add_contact(args, d) ==
    IF Len(args) < 2
    THEN WithData(Ok("Give me name and phone please."), d)
    ELSE LET phone == Phone(args[2])
             name  == args[1]
         IN  IF phone.exc = "ValueError" THEN WithData(Ok(phone.msg), d)
             ELSE IF Contains(d, name)
             THEN LET r == add_phone(find(d, name)[1], phone.val)
                  IN  WithData(Ok("New phone added to contact"), Mutate(d, name, r.rec))
             ELSE LET new == Record(name)
                  IN  IF new.exc = "ValueError" THEN WithData(Ok(new.msg), d)
                      ELSE LET r == add_phone(new.val, phone.val)
                               a == add_record(d, r.rec)
                           IN  WithData(Ok("Contact added"), a.data)

\* change_contact under input_error_change
change_contact(args, d) ==
    IF Len(args) < 2
    THEN WithData(Ok("Give me name, old phone and new phone please."), d)
    ELSE LET name == args[1]
             old_phone == Phone(args[2])
         IN  IF old_phone.exc = "ValueError" THEN WithData(Ok(old_phone.msg), d)
             ELSE IF Len(args) < 3
             THEN WithData(Ok("Give me name, old phone and new phone please."), d)
             ELSE LET new_phone == Phone(args[3])
                  IN  IF new_phone.exc = "ValueError" THEN WithData(Ok(new_phone.msg), d)
                      ELSE IF Contains(d, name)
                      THEN LET r == edit_phone(find(d, name)[1], old_phone.val, new_phone.val)
                           IN  IF r.exc = "ValueError" THEN WithData(Ok(r.msg), d)
                               ELSE WithData(Ok("Number was edited"), Mutate(d, name, r.rec))
                      ELSE WithData(Ok("There is no {name} in contact book."), d)

\* add_birthday under input_error_add_birthday: IndexError and ValueError
\* become messages, any other exception leaves the handler
add_birthday(args, d) ==
    IF Len(args) < 2
    THEN WithData(Ok("Give me name and birthday please."), d)
    ELSE LET name == args[1]
             birthday == Birthday(PyStr(args[2]))
         IN  IF birthday.exc = "ValueError" THEN WithData(Ok(birthday.msg), d)
             ELSE IF Contains(d, name)
             THEN LET r == Record_add_birthday(find(d, name)[1], PyDate(birthday.val))
                  IN  IF r.exc = "ValueError" THEN WithData(Ok(r.msg), d)
                      ELSE IF r.exc # "none" THEN WithData(r, d)
                      ELSE WithData(Ok("Birthday added"), Mutate(d, name, r.rec))
             ELSE WithData(Ok("There is no {name} in contact book."), d)

(* ------------------------------ inputs -------------------------------- *)

\* "A", "B" and " "
NameA == <<65>>

NameB == <<66>>

NameBlank == <<32>>

\* "0501234567" and "0671112233"
P1 == <<48, 53, 48, 49, 50, 51, 52, 53, 54, 55>>

P2 == <<48, 54, 55, 49, 49, 49, 50, 50, 51, 51>>

\* "050123456a": ten characters, one of them a letter
BadLetter == <<48, 53, 48, 49, 50, 51, 52, 53, 54, 97>>

\* "16.03.2024", "29.02.2000", "1.3.2024" and "soon"
D_16_03_2024 == <<49, 54, 46, 48, 51, 46, 50, 48, 50, 52>>

D_29_02_2000 == <<50, 57, 46, 48, 50, 46, 50, 48, 48, 48>>

D_1_3_2024 == <<49, 46, 51, 46, 50, 48, 50, 52>>

D_soon == <<115, 111, 111, 110>>

\* every prefix of the argument lists in S
Prefixes(S) == UNION {{SubSeq(a, 1, n) : n \in 0..Len(a)} : a \in S}

(* ------------------------------ actions ------------------------------- *)

\* what the last call was, what it was given and how it ended
Step(op, args, out) ==
    [op |-> op, args |-> args, exc |-> out.exc, msg |-> out.msg, val |-> out.val]

Init ==
    /\ data = <<>>
    /\ last = [op |-> "init", args |-> <<>>, exc |-> "none", msg |-> "", val |-> <<>>]

\* book.add_record(r) for a record r built by Record(name), r.add_phone and
\* r.add_birthday; when Record(name) raises there is nothing to add
AddRecord(names, phones, dates) ==
    \E name \in names, ph \in {<<>>} \cup {<<p>> : p \in phones},
       bd \in {<<>>} \cup {<<s>> : s \in dates} :
        LET r0 == Record(name)
        IN  IF r0.exc # "none"
            THEN /\ last' = Step("Record", <<name>>, r0)
                 /\ UNCHANGED data
            ELSE LET r1  == IF ph = <<>> THEN r0.val ELSE add_phone(r0.val, ph[1]).rec
                     rec == IF bd = <<>> THEN r1
                            ELSE Record_add_birthday(r1, PyStr(bd[1])).rec
                     out == add_record(data, rec)
                 IN  /\ Contains(data, name) \/ Len(data) < MaxContacts
                     /\ data' = out.data
                     /\ last' = Step("add_record", <<rec>>, out)

\* book.delete(name)
Delete(names) ==
    \E name \in names :
        LET out == delete(data, name)
        IN  /\ data' = out.data
            /\ last' = Step("delete", <<name>>, out)

\* book.find(name)
Find(names) ==
    \E name \in names :
        /\ last' = Step("find", <<name>>, Ok(find(data, name)))
        /\ UNCHANGED data

\* book.find(name).add_phone(phone)
AddPhone(names, phones, maxPhones) ==
    \E name \in names, phone \in phones :
        /\ Contains(data, name)
        /\ LET rec == find(data, name)[1]
               out == add_phone(rec, phone)
           IN  /\ Len(out.rec.phones) <= maxPhones
               /\ data' = Mutate(data, name, out.rec)
               /\ last' = Step("add_phone", <<name, phone>>, out)

\* book.find(name).remove_phone(phone)
RemovePhone(names, phones) ==
    \E name \in names, phone \in phones :
        /\ Contains(data, name)
        /\ LET out == remove_phone(find(data, name)[1], phone)
           IN  /\ data' = Mutate(data, name, out.rec)
               /\ last' = Step("remove_phone", <<name, phone>>, out)

\* book.find(name).edit_phone(old_phone, new_phone)
EditPhone(names, phones) ==
    \E name \in names, old_phone \in phones, new_phone \in phones :
        /\ Contains(data, name)
        /\ LET out == edit_phone(find(data, name)[1], old_phone, new_phone)
           IN  /\ data' = Mutate(data, name, out.rec)
               /\ last' = Step("edit_phone", <<name, old_phone, new_phone>>, out)

\* book.find(name).find_phone(phone)
FindPhone(names, phones) ==
    \E name \in names, phone \in phones :
        /\ Contains(data, name)
        /\ last' = Step("find_phone", <<name, phone>>, find_phone(find(data, name)[1], phone))
        /\ UNCHANGED data

\* book.find(name).add_birthday(birthday) with a str
AddBirthday(names, dates) ==
    \E name \in names, birthday \in dates :
        /\ Contains(data, name)
        /\ LET out == Record_add_birthday(find(data, name)[1], PyStr(birthday))
           IN  /\ data' = Mutate(data, name, out.rec)
               /\ last' = Step("Record.add_birthday", <<name, birthday>>, out)

\* the command "add"
CmdAdd(argLists, maxPhones) ==
    \E args \in argLists :
        LET out == add_contact(args, data)
        IN  /\ Len(out.data) <= MaxContacts
            /\ \A i \in 1..Len(out.data) : Len(out.data[i].rec.phones) <= maxPhones
            /\ data' = out.data
            /\ last' = Step("add_contact", args, out)

\* the command "change"
CmdChange(argLists) ==
    \E args \in argLists :
        LET out == change_contact(args, data)
        IN  /\ data' = out.data
            /\ last' = Step("change_contact", args, out)

\* the command "add-birthday"
CmdAddBirthday(argLists) ==
    \E args \in argLists :
        LET out == add_birthday(args, data)
        IN  /\ data' = out.data
            /\ last' = Step("add_birthday", args, out)

\* book.get_upcoming_birthdays(days) on the day today
UpcomingBirthdays(todays, dayCounts) ==
    \E today \in todays, days \in dayCounts :
        /\ last' = Step("get_upcoming_birthdays", <<today, days>>,
                        get_upcoming_birthdays(data, today, days))
        /\ UNCHANGED data

(* --------------------------- the directory ---------------------------- *)

BookNames == {NameA, NameB}

BookDates == {D_16_03_2024, D_soon}

AddArgs == Prefixes({<<n, p>> : n \in BookNames, p \in {P1, BadLetter}})

ChangeArgs ==
    Prefixes({<<n, op[1], op[2]>> :
                n \in BookNames, op \in {<<P1, P2>>, <<BadLetter, P1>>, <<P1, BadLetter>>}})

BirthdayArgs == Prefixes({<<n, s>> : n \in BookNames, s \in BookDates})

Next ==
    \/ AddRecord(BookNames \cup {NameBlank}, {P1}, {D_16_03_2024})
    \/ Delete(BookNames)
    \/ Find(BookNames)
    \/ AddPhone(BookNames, {P2, BadLetter}, MaxBookPhones)
    \/ AddBirthday(BookNames, BookDates)
    \/ CmdAdd(AddArgs, MaxBookPhones)
    \/ CmdChange(ChangeArgs)
    \/ CmdAddBirthday(BirthdayArgs)

Spec == Init /\ [][Next]_vars

(* ----------------------------- one record ----------------------------- *)

RecordPhones == {P1, P2, BadLetter}

NextRecord ==
    \/ AddRecord({NameA}, {}, {})
    \/ AddPhone({NameA}, RecordPhones, MaxPhones)
    \/ RemovePhone({NameA}, RecordPhones)
    \/ EditPhone({NameA}, RecordPhones)
    \/ FindPhone({NameA}, RecordPhones)

SpecRecord == Init /\ [][NextRecord]_vars

(* ------------------------- phone construction ------------------------- *)

\* "0123456789012...", cut to n characters
Digits(n) == [i \in 1..n |-> 48 + ((i - 1) % 10)]

\* "5", "a", " ", "-", SUPERSCRIPT TWO and ARABIC-INDIC DIGIT FIVE
PhoneChars == {53, 97, 32, 45, 178, 1637}

\* the raw strings: the empty one, and digit strings around the required
\* length with one character replaced
PhoneInputs ==
    {<<>>} \cup
    {[Digits(n) EXCEPT ![i] = c] :
        n \in (PhoneLen - 1)..(PhoneLen + MaxExtra), i \in {1, PhoneLen - 1, PhoneLen}, c \in PhoneChars}

\* the directory after book.add_record(Record("A")), and a raw string to try
InitPhone ==
    /\ data = add_record(<<>>, Record(NameA).val).data
    /\ \E value \in PhoneInputs :
        last = [op |-> "input", args |-> <<value>>, exc |-> "none", msg |-> "", val |-> <<>>]

\* Phone(value)
NewPhone ==
    /\ last.op = "input"
    /\ last' = Step("Phone", last.args, Phone(last.args[1]))
    /\ UNCHANGED data

\* book.find("A").add_phone(value)
AddPhoneInput ==
    /\ last.op = "input"
    /\ LET out == add_phone(find(data, NameA)[1], last.args[1])
       IN  /\ data' = Mutate(data, NameA, out.rec)
           /\ last' = Step("add_phone", <<NameA, last.args[1]>>, out)

NextPhone == NewPhone \/ AddPhoneInput

SpecPhone == InitPhone /\ [][NextPhone]_vars

(* ------------------------- birthdays of a day ------------------------- *)

\* "01.01.2000", "31.12.1999" and "28.02.1990"
D_01_01_2000 == <<48, 49, 46, 48, 49, 46, 50, 48, 48, 48>>

D_31_12_1999 == <<51, 49, 46, 49, 50, 46, 49, 57, 57, 57>>

D_28_02_1990 == <<50, 56, 46, 48, 50, 46, 49, 57, 57, 48>>

BirthdayDates ==
    {D_16_03_2024, D_29_02_2000, D_1_3_2024, D_01_01_2000, D_31_12_1999, D_28_02_1990}

\* Record(name) with r.add_birthday(s) for each s in bd
RecordWith(name, bd) ==
    IF bd = <<>> THEN Record(name).val
    ELSE Record_add_birthday(Record(name).val, PyStr(bd[1])).rec

MaybeDate == {<<>>} \cup {<<s>> : s \in BirthdayDates}

\* the directories of at most two contacts, "A" and "B" in either order
BirthdayBooks ==
    {<<>>}
    \cup {add_record(<<>>, RecordWith(n, bd)).data : n \in BookNames, bd \in MaybeDate}
    \cup {add_record(add_record(<<>>, RecordWith(n, b1)).data,
                     RecordWith(CHOOSE m \in BookNames : m # n, b2)).data :
            n \in BookNames, b1 \in MaybeDate, b2 \in MaybeDate}

\* every day from first to final
DaysFrom(first, final) == {FromOrdinal(n) : n \in ToOrdinal(first)..ToOrdinal(final)}

\* the days date.today() is: 20.02.2023 - 10.03.2023 and 01.12.2023 - 31.03.2024
Todays ==
    DaysFrom(MkDate(2023, 2, 20), MkDate(2023, 3, 10))
    \cup DaysFrom(MkDate(2023, 12, 1), MkDate(2024, 3, 31))

\* the longest window asked for
MaxDays == 366

DayCounts == {0, 1, DefaultDays, MaxDays}

InitBirthdays ==
    /\ data \in BirthdayBooks
    /\ \E today \in Todays, days \in DayCounts :
        last = [op |-> "input", args |-> <<today, days>>, exc |-> "none", msg |-> "", val |-> <<>>]

\* book.get_upcoming_birthdays(days) on the day drawn
Upcoming ==
    /\ last.op = "input"
    /\ UpcomingBirthdays({last.args[1]}, {last.args[2]})

NextBirthdays == Upcoming

SpecBirthdays == InitBirthdays /\ [][NextBirthdays]_vars

(* ============================== claims ================================ *)

\* the records stored under key name
StoredUnder(d, name) == {d[i].rec : i \in {j \in 1..Len(d) : d[j].key = name}}

\* ten characters, each one of 0-9
TenAsciiDigits(s) == Len(s) = 10 /\ \A i \in 1..Len(s) : s[i] \in 48..57

\* DD.MM.YYYY in ASCII digits, and the date it names (<<>> when none)
WellFormedDate(s) ==
    /\ Len(s) = 10
    /\ s[3] = 46 /\ s[6] = 46
    /\ \A i \in {1, 2, 4, 5, 7, 8, 9, 10} : s[i] \in 48..57
    /\ LET dd == 10 * (s[1] - 48) + (s[2] - 48)
           mm == 10 * (s[4] - 48) + (s[5] - 48)
           yy == 1000 * (s[7] - 48) + 100 * (s[8] - 48) + 10 * (s[9] - 48) + (s[10] - 48)
       IN  yy >= 1 /\ mm \in 1..12 /\ dd >= 1 /\ dd <= DaysInMonth(yy, mm)

DateOf(s) ==
    MkDate(1000 * (s[7] - 48) + 100 * (s[8] - 48) + 10 * (s[9] - 48) + (s[10] - 48),
           10 * (s[4] - 48) + (s[5] - 48),
           10 * (s[1] - 48) + (s[2] - 48))

\* days from 10.03.2024, a Sunday, modulo 7: 0 = Sunday ... 6 = Saturday
DaysAfterSunday(dt) == (ToOrdinal(dt) - ToOrdinal(MkDate(2024, 3, 10))) % 7

\* the first day on or after today with the month and day of birthday, among
\* the days of today's year and the next; <<>> when neither year has the day
NextOccurrence(birthday, today) ==
    LET years == {y \in {today.y, today.y + 1} :
                    /\ birthday.d <= DaysInMonth(y, birthday.m)
                    /\ ToOrdinal(MkDate(y, birthday.m, birthday.d)) >= ToOrdinal(today)}
    IN  IF years = {} THEN <<>>
        ELSE <<MkDate(CHOOSE y \in years : \A z \in years : y <= z, birthday.m, birthday.d)>>

\* the projected birthday as the claim words it: the month and day in
\* today's year, or in the following year when that day is before today.
\* A contact whose month and day is no day of one of these years is counted
\* as outside the window.
ProjectedInWindow(birthday, today, days) ==
    LET before == birthday.m < today.m \/ (birthday.m = today.m /\ birthday.d < today.d)
        year   == IF before THEN today.y + 1 ELSE today.y
    IN  /\ birthday.d <= DaysInMonth(today.y, birthday.m)
        /\ birthday.d <= DaysInMonth(year, birthday.m)
        /\ ToOrdinal(MkDate(year, birthday.m, birthday.d)) - ToOrdinal(today) \in 0..days

\* the entries of a result list that carry name
EntriesOf(list, name) == {j \in 1..Len(list) : list[j].name = name}

\* C1: get_upcoming_birthdays(days) returns exactly one entry for every
\* contact whose birthday is set and whose projected birthday lies in
\* [today, today + days], and no entry for any other contact.
C1_EntryIffInWindow ==
    last.op = "get_upcoming_birthdays" =>
        \A i \in 1..Len(data) :
            LET rec == data[i].rec
                n   == Cardinality(EntriesOf(last.val, rec.name))
            IN  IF rec.birthday # <<>>
                   /\ ProjectedInWindow(rec.birthday[1], last.args[1], last.args[2])
                THEN n = 1
                ELSE n = 0

\* C2: every returned congratulation date is the projected birthday when
\* that is a Monday to Friday, two days later when it is a Saturday and one
\* day later when it is a Sunday, and so never a Saturday or Sunday.
C2_CongratulationDate ==
    (last.op = "get_upcoming_birthdays" /\ last.exc = "none") =>
        \A j \in 1..Len(last.val) :
            LET rec  == CHOOSE r \in StoredUnder(data, last.val[j].name) : TRUE
                proj == NextOccurrence(rec.birthday[1], last.args[1])[1]
                w    == DaysAfterSunday(proj)
                want == IF w = 6 THEN FromOrdinal(ToOrdinal(proj) + 2)
                        ELSE IF w = 0 THEN FromOrdinal(ToOrdinal(proj) + 1)
                        ELSE proj
            IN  /\ WellFormedDate(last.val[j].cdate)
                /\ DateOf(last.val[j].cdate) = want
                /\ DaysAfterSunday(DateOf(last.val[j].cdate)) \notin {0, 6}

\* today = Sunday 10.03.2024, birthday Saturday 16.03.2024: congratulated on
\* Monday 18.03.2024
C2_Witness ==
    /\ last.op = "get_upcoming_birthdays"
    /\ last.exc = "none"
    /\ last.args = <<MkDate(2024, 3, 10), DefaultDays>>
    /\ \E j \in 1..Len(last.val) :
        /\ last.val[j].name = NameA
        /\ last.val[j].cdate = <<49, 56, 46, 48, 51, 46, 50, 48, 50, 52>>
    /\ \E r \in StoredUnder(data, NameA) : r.birthday = <<MkDate(2024, 3, 16)>>

\* C3: get_upcoming_birthdays returns a list for every directory and every
\* today, a birthday on 29 February included; it never raises.
C3_NeverRaises == last.op = "get_upcoming_birthdays" => last.exc = "none"

\* the record stored under name, when there is exactly one
TheRecord(d, name) == CHOOSE r \in StoredUnder(d, name) : TRUE

\* C4: add_record of a record whose name has no entry makes find(name)
\* return that record; with the name already present it fails with the
\* duplicate error and the directory stays as it was.
C4_AddRecord ==
    [][last'.op = "add_record" =>
        LET record == last'.args[1]
        IN  IF StoredUnder(data, record.name) = {}
            THEN /\ last'.exc = "none"
                 /\ find(data', record.name) = <<record>>
                 /\ Len(data') = Len(data) + 1
                 /\ \A i \in 1..Len(data) : data'[i] = data[i]
            ELSE /\ last'.exc = "ValueError"
                 /\ last'.msg = "Record with this name already exists."
                 /\ data' = data]_vars

\* a second record named "A", with other content than the stored one, was
\* refused while "B" is in the directory too
C4_Witness ==
    /\ last.op = "add_record"
    /\ last.exc = "ValueError"
    /\ last.args[1].name = NameA
    /\ StoredUnder(data, NameA) # {}
    /\ last.args[1] \notin StoredUnder(data, NameA)
    /\ StoredUnder(data, NameB) # {}

\* C5: edit_phone(old, new) with a valid new replaces the first entry equal
\* to old, in place, and nothing else; with old matching no entry it fails
\* with the not-found error and the phone list stays as it was.
C5_EditPhone ==
    [][last'.op = "edit_phone" =>
        LET name   == last'.args[1]
            old    == last'.args[2]
            new    == last'.args[3]
            before == TheRecord(data, name).phones
            after  == TheRecord(data', name).phones
            hits   == {i \in 1..Len(before) : before[i] = old}
        IN  /\ Len(data') = Len(data)
            /\ TheRecord(data', name).name = TheRecord(data, name).name
            /\ TheRecord(data', name).birthday = TheRecord(data, name).birthday
            /\ (hits # {} /\ TenAsciiDigits(new)) =>
                    LET first == CHOOSE i \in hits : \A j \in hits : i <= j
                    IN  /\ last'.exc = "none"
                        /\ Len(after) = Len(before)
                        /\ after[first] = new
                        /\ \A j \in 1..Len(before) : j # first => after[j] = before[j]
            /\ hits = {} =>
                    /\ last'.exc = "ValueError"
                    /\ last'.msg = "Old phone number not found."
                    /\ after = before]_vars

\* edit_phone(P1, P2) on the phones P1, P1, P2 gave P2, P1, P2: the later P1
\* is still there
C5_Witness ==
    /\ last.op = "edit_phone"
    /\ last.exc = "none"
    /\ last.args = <<NameA, P1, P2>>
    /\ TheRecord(data, NameA).phones = <<P2, P1, P2>>

\* C6: edit_phone reports the not-found error only when old matches no
\* stored entry; with old stored and new invalid it fails with the phone
\* format error.
C6_ErrorKinds ==
    (last.op = "edit_phone" /\ last.exc # "none") =>
        LET phones == TheRecord(data, last.args[1]).phones
            stored == \E i \in 1..Len(phones) : phones[i] = last.args[2]
        IN  /\ last.exc = "ValueError"
            /\ last.msg = IF stored THEN "Phone number must consist of 10 digits."
                          ELSE "Old phone number not found."

\* C7: delete of an absent name fails with the not-found error and changes
\* nothing; delete of a present name removes that entry and no other.
C7_Delete ==
    [][last'.op = "delete" =>
        LET name == last'.args[1]
            Other(e) == e.key # name
        IN  IF StoredUnder(data, name) = {}
            THEN /\ last'.exc = "KeyError"
                 /\ last'.msg = "Record not found."
                 /\ data' = data
            ELSE /\ last'.exc = "none"
                 /\ find(data', name) = <<>>
                 /\ data' = SelectSeq(data, Other)]_vars

\* "A" was deleted and "B" is still there
C7_Witness ==
    /\ last.op = "delete"
    /\ last.exc = "none"
    /\ last.args = <<NameA>>
    /\ StoredUnder(data, NameA) = {}
    /\ StoredUnder(data, NameB) # {}

\* C8: Phone(value) succeeds exactly for ten characters that are all digits
\* 0-9, and then holds value; otherwise it fails with the validation error,
\* and add_phone appends nothing.
C8_PhoneValidation ==
    /\ last.op = "Phone" =>
        IF TenAsciiDigits(last.args[1])
        THEN last.exc = "none" /\ last.val = last.args[1]
        ELSE last.exc = "ValueError" /\ last.msg = "Phone number must consist of 10 digits."
    /\ last.op = "add_phone" =>
        TheRecord(data, last.args[1]).phones =
            IF TenAsciiDigits(last.args[2]) THEN <<last.args[2]>> ELSE <<>>

\* C9: the handler add_birthday never lets an exception out, and for a
\* contact of the book and a well-formed date it sets the birthday and
\* returns "Birthday added".
C9_AddBirthdayHandler ==
    last.op = "add_birthday" =>
        /\ last.exc = "none"
        /\ (Len(last.args) >= 2
            /\ StoredUnder(data, last.args[1]) # {}
            /\ WellFormedDate(last.args[2])) =>
                /\ last.val = "Birthday added"
                /\ TheRecord(data, last.args[1]).birthday = <<DateOf(last.args[2])>>

\* C10: every key of the directory maps to a record of that name, and no
\* name has two entries.
C10_KeyIsName ==
    /\ \A i \in 1..Len(data) : data[i].rec.name = data[i].key
    /\ \A i, j \in 1..Len(data) : data[i].key = data[j].key => i = j

\* the command "add" put a second contact into the directory
C10_Witness ==
    /\ last.op = "add_contact"
    /\ last.val = "Contact added"
    /\ Len(data) = 2
    /\ StoredUnder(data, last.args[1]) # {}

====
